---- MODULE Spec2Model ----
(***************************************************************************)
(* Model of lushus-jwt: the authorization decision (authorize / verify,    *)
(* the resource -> actions index) and the scope codec (a single            *)
(* "action:resource" pair and the space-separated list of pairs).          *)
(*                                                                         *)
(* A Rust String is a sequence of one-character strings.  Option<T> is a   *)
(* sequence of length 0 (None) or 1 (Some).  A HashMap<String, Vec<..>> is *)
(* a function whose domain is the set of keys.  Result<T, E> is a record   *)
(* with a kind field.                                                      *)
(***************************************************************************)
EXTENDS Integers, Sequences, FiniteSets, TLC

VARIABLES auth, resource, required_action, scopeIn, text, op, result,
          scopesIn, args, req, cfg, clock, pc, steps, log

vars == <<auth, resource, required_action, scopeIn, text, op, result,
          scopesIn, args, req, cfg, clock, pc, steps, log>>

\* the variables of the claims, token and middleware specifications
callVars == <<args, req, cfg, clock, pc, steps, log>>

(***************************************************************************)
(* Bounds of the explored inputs.                                          *)
(***************************************************************************)
MaxScopes == 2
MaxTextLen == 7
MaxFieldLen == 2
\* Duration keeps whole seconds in a u64 and the rest in nanoseconds; the model
\* keeps the two parts and scales both ranges down
DurationMaxSecs == 4
SubsecsPerSec == 2
MaxTime == 2
MaxAud == 2
MaxKeys == 2
MaxBodyLen == 2

\* Validation::new(Algorithm::RS256) validates exp with a leeway of 60 seconds
Leeway == 60

\* the resource and action names of the authorization decision: the empty
\* name, two names differing in case only, and a name extending another
Names == {<<>>, <<"a">>, <<"A">>, <<"a", "b">>}
TextChars == {"a", "b", ":", " "}

None == <<>>
Some(x) == <<x>>

RECURSIVE StringsUpTo(_, _)
StringsUpTo(chars, n) ==
    IF n = 0 THEN {<<>>}
    ELSE LET shorter == StringsUpTo(chars, n - 1)
         IN  shorter \cup {Append(s, c) : s \in shorter, c \in chars}

Texts == StringsUpTo(TextChars, MaxTextLen)
Fields == StringsUpTo(TextChars, MaxFieldLen)

RECURSIVE ListsUpTo(_, _)
ListsUpTo(S, n) ==
    IF n = 0 THEN {<<>>}
    ELSE LET shorter == ListsUpTo(S, n - 1)
         IN  shorter \cup {Append(l, x) : l \in shorter, x \in S}

(***************************************************************************)
(* Scope                                                                   *)
(***************************************************************************)
Scope_new(action, res) == [action |-> action, resource |-> res]

\* the fields of the scopes of an encoded list: two plain names and a name
\* with a space in it
ListFields == {<<"a">>, <<"b">>, <<"a", " ">>}

AuthScopes == {Scope_new(a, r) : a \in Names, r \in Names}
ListScopes == {Scope_new(a, r) : a \in ListFields, r \in ListFields}
CodecScopes == {Scope_new(a, r) : a \in Fields, r \in Fields}

(***************************************************************************)
(* The resource -> actions index.                                          *)
(***************************************************************************)
\* variant: HashMap::insert(resource, vec![action]), which drops the earlier actions
entry_push_insert(m, res, action) ==
    [k \in DOMAIN m \cup {res} |-> IF k = res THEN <<action>> ELSE m[k]]

\* HashMap::entry(resource).and_modify(|vec| vec.push(action)).or_insert(vec![action])
entry_push(m, res, action) ==
    IF res \in DOMAIN m
    THEN [m EXCEPT ![res] = Append(@, action)]
    ELSE [k \in DOMAIN m \cup {res} |-> IF k = res THEN <<action>> ELSE m[k]]

EmptyMap == [k \in {} |-> <<>>]

RECURSIVE resources_loop(_, _, _)
resources_loop(scopes, i, m) ==
    IF i > Len(scopes) THEN m
    ELSE resources_loop(scopes, i + 1,
                        entry_push(m, scopes[i].resource, scopes[i].action))

\* Claims<AuthorizationClaims>::resources, reached through AccessToken::resources
resources(scopes) == resources_loop(scopes, 1, EmptyMap)

\* HashMap::get
map_get(m, k) == IF k \in DOMAIN m THEN Some(m[k]) ELSE None

\* variant: .get(resource).cloned().unwrap_or_default() wrapped in Some
AccessToken_actions_default(scopes, res) ==
    LET m == resources(scopes)
    IN  Some(IF res \in DOMAIN m THEN m[res] ELSE <<>>)

AccessToken_actions(scopes, res) == map_get(resources(scopes), res)

\* the earlier Token keeps the index it built in its constructor
Token_new(scopes) ==
    [claims |-> scopes, resources |-> resources_loop(scopes, 1, EmptyMap)]

Token_actions(token, res) == map_get(token.resources, res)

(***************************************************************************)
(* authorize / verify                                                      *)
(***************************************************************************)
Ok(v) == [kind |-> "Ok", payload |-> v]
Unauthorized == [kind |-> "Unauthorized", payload |-> <<>>]
UnauthorizedResource(r) == [kind |-> "UnauthorizedResource", payload |-> r]
UnauthorizedAction(a) == [kind |-> "UnauthorizedAction", payload |-> a]

lower(s) == [i \in 1..Len(s) |-> IF s[i] = "A" THEN "a" ELSE s[i]]

\* variant: only the first action granted on the resource is compared
find_first_only(actions, wanted) ==
    IF Len(actions) >= 1 /\ actions[1] = wanted
    THEN Some(wanted) ELSE None

\* variant: the comparison ignores case
find_ignore_case(actions, wanted) ==
    IF \E i \in 1..Len(actions) : lower(actions[i]) = lower(wanted)
    THEN Some(wanted) ELSE None

\* actions.iter().find(|v| *v == required_action)
find(actions, wanted) ==
    IF \E i \in 1..Len(actions) : actions[i] = wanted
    THEN Some(wanted) ELSE None

\* variant: any grant on the resource authorizes every action
authorize_any_action(a, res, act) ==
    IF a = None THEN Unauthorized
    ELSE IF AccessToken_actions(a[1], res) = None THEN UnauthorizedResource(res)
    ELSE Ok(<<>>)

\* variant: the resource error carries the action
authorize_wrong_payload(a, res, act) ==
    IF a = None THEN Unauthorized
    ELSE LET actions == AccessToken_actions(a[1], res)
         IN  IF actions = None THEN UnauthorizedResource(act)
             ELSE IF find(actions[1], act) = None THEN UnauthorizedAction(act)
             ELSE Ok(<<>>)

authorize(a, res, act) ==
    IF a = None THEN Unauthorized
    ELSE LET actions == AccessToken_actions(a[1], res)
         IN  IF actions = None THEN UnauthorizedResource(res)
             ELSE IF find(actions[1], act) = None THEN UnauthorizedAction(act)
             ELSE Ok(<<>>)

\* variant: an absent token is treated as a token without scopes
verify_absent_as_empty(a, res, act) ==
    LET scopes == IF a = None THEN <<>> ELSE a[1]
        actions == AccessToken_actions(scopes, res)
    IN  IF actions = None THEN UnauthorizedResource(res)
        ELSE IF find(actions[1], act) = None THEN UnauthorizedAction(act)
        ELSE Ok(<<>>)

verify(a, res, act) ==
    IF a = None THEN Unauthorized
    ELSE LET actions == AccessToken_actions(a[1], res)
         IN  IF actions = None THEN UnauthorizedResource(res)
             ELSE IF find(actions[1], act) = None THEN UnauthorizedAction(act)
             ELSE Ok(<<>>)

\* no call of the claims, token or middleware specifications is in progress
CallIdle ==
    /\ args = None
    /\ req = None
    /\ cfg = None
    /\ clock = 0
    /\ pc = "idle"
    /\ steps = <<>>
    /\ log = <<>>

(***************************************************************************)
(* Specification of the authorization decision: the inputs of one call are *)
(* drawn in Init, each action is one call.                                 *)
(***************************************************************************)
Init ==
    /\ auth \in {None} \cup {Some(l) : l \in ListsUpTo(AuthScopes, MaxScopes)}
    /\ resource \in Names
    /\ required_action \in Names
    /\ scopeIn = None
    /\ text = None
    /\ scopesIn = None
    /\ op = "start"
    /\ result = None
    /\ CallIdle

Authorize ==
    /\ op = "start"
    /\ op' = "authorize"
    /\ result' = authorize(auth, resource, required_action)
    /\ UNCHANGED <<auth, resource, required_action, scopeIn, text, scopesIn, callVars>>

Verify ==
    /\ op = "start"
    /\ op' = "verify"
    /\ result' = verify(auth, resource, required_action)
    /\ UNCHANGED <<auth, resource, required_action, scopeIn, text, scopesIn, callVars>>

Resources ==
    /\ op = "start"
    /\ auth # None
    /\ op' = "resources"
    /\ result' = resources(auth[1])
    /\ UNCHANGED <<auth, resource, required_action, scopeIn, text, scopesIn, callVars>>

TokenNew ==
    /\ op = "start"
    /\ auth # None
    /\ op' = "token_new"
    /\ result' = Token_new(auth[1])
    /\ UNCHANGED <<auth, resource, required_action, scopeIn, text, scopesIn, callVars>>

Actions ==
    /\ op = "start"
    /\ auth # None
    /\ op' = "actions"
    /\ result' = AccessToken_actions(auth[1], resource)
    /\ UNCHANGED <<auth, resource, required_action, scopeIn, text, scopesIn, callVars>>

TokenActions ==
    /\ op = "start"
    /\ auth # None
    /\ op' = "token_actions"
    /\ result' = Token_actions(Token_new(auth[1]), resource)
    /\ UNCHANGED <<auth, resource, required_action, scopeIn, text, scopesIn, callVars>>

Next ==
    \/ Authorize
    \/ Verify
    \/ Resources
    \/ TokenNew
    \/ Actions
    \/ TokenActions

Spec == Init /\ [][Next]_vars

(***************************************************************************)
(* Scope codec: one "action:resource" pair.                                *)
(***************************************************************************)
Err(e) == [kind |-> "Err", payload |-> e]

\* ScopeError::InvalidScopeFormat(v)
InvalidScopeFormat(v) == [variant |-> "InvalidScopeFormat", text |-> v]

\* de::Error::custom(msg): the error of the deserializer, carrying the message
de_custom(msg) == [variant |-> "Custom", message |-> msg]

\* ScopeDeserializerError::Error("Failed to deserialize")
FailedToDeserialize == [variant |-> "Error", message |-> "Failed to deserialize"]

\* ScopeError::DeserializeError(e)
DeserializeError(e) == [variant |-> "DeserializeError", source |-> e]

\* str::split(sep): the segments between the occurrences of sep, in order;
\* n occurrences give n + 1 segments, empty ones included
RECURSIVE split(_, _)
split(s, sep) ==
    IF \A i \in 1..Len(s) : s[i] # sep THEN <<s>>
    ELSE LET i == CHOOSE k \in 1..Len(s) :
                      s[k] = sep /\ \A j \in 1..(k - 1) : s[j] # sep
         IN  <<SubSeq(s, 1, i - 1)>> \o split(SubSeq(s, i + 1, Len(s)), sep)

\* variant: the check of the resource segment is missing
visit_str_no_resource_check(v) ==
    LET parts == split(v, ":")
    IN  IF Len(parts) < 2 \/ Len(parts[1]) < 1
        THEN Err(de_custom(InvalidScopeFormat(v)))
        ELSE Ok(Scope_new(parts[1], parts[2]))

\* ScopeVisitor::visit_str (parts[0], parts[1] of the source are parts[1], parts[2])
visit_str(v) ==
    LET parts == split(v, ":")
    IN  IF Len(parts) < 2 \/ Len(parts[1]) < 1 \/ Len(parts[2]) < 1
        THEN Err(de_custom(InvalidScopeFormat(v)))
        ELSE Ok(Scope_new(parts[1], parts[2]))

\* ScopeDeserializer::deserialize_str: the whole input is handed to the
\* visitor as one string and nothing of it is left
ScopeDeserializer_deserialize_str(input) == [visited |-> input, rest |-> <<>>]

\* <Scope as Deserialize>::deserialize
Scope_deserialize(input) ==
    LET d == ScopeDeserializer_deserialize_str(input)
    IN  [value |-> visit_str(d.visited), rest |-> d.rest]

serde_scope_from_str(s) ==
    LET r == Scope_deserialize(s)
    IN  IF r.value.kind = "Err" THEN r.value
        ELSE IF r.rest = <<>> THEN r.value
        ELSE Err(FailedToDeserialize)

\* <Scope as FromStr>::from_str
Scope_from_str(s) ==
    LET r == serde_scope_from_str(s)
    IN  IF r.kind = "Err" THEN Err(DeserializeError(r.payload)) ELSE r

\* ScopeSerializer::serialize_str: the string is appended to the output
ScopeSerializer_serialize_str(output, str) == output \o str

\* variant: the two fields are written in the other order
Scope_serialize_swapped(scope, output) ==
    ScopeSerializer_serialize_str(output, scope.resource \o <<":">> \o scope.action)

\* <Scope as Serialize>::serialize
Scope_serialize(scope, output) ==
    ScopeSerializer_serialize_str(output, scope.action \o <<":">> \o scope.resource)

serde_scope_to_string(scope) == Scope_serialize(scope, <<>>)

\* <Scope as Display>::fmt, through to_string()
Scope_to_string(scope) == serde_scope_to_string(scope)

(***************************************************************************)
(* Scope codec: the space-separated list.                                  *)
(***************************************************************************)
\* variant: invalid segments are skipped instead of ending the iteration
RECURSIVE Result_from_iter_skipping(_, _, _)
Result_from_iter_skipping(segs, i, acc) ==
    IF i > Len(segs) THEN Ok(acc)
    ELSE LET r == Scope_from_str(segs[i])
         IN  IF r.kind = "Err" THEN Result_from_iter_skipping(segs, i + 1, acc)
             ELSE Result_from_iter_skipping(segs, i + 1, Append(acc, r.payload))

\* Result::from_iter over s.split(" ").map(FromStr::from_str): the first Err
\* ends the iteration and is the result
RECURSIVE Result_from_iter(_, _, _)
Result_from_iter(segs, i, acc) ==
    IF i > Len(segs) THEN Ok(acc)
    ELSE LET r == Scope_from_str(segs[i])
         IN  IF r.kind = "Err" THEN r
             ELSE Result_from_iter(segs, i + 1, Append(acc, r.payload))

SpaceSeparated_visit_str(s) ==
    LET r == Result_from_iter(split(s, " "), 1, <<>>)
    IN  IF r.kind = "Err" THEN Err(de_custom(r.payload)) ELSE r

space_separated_deserialize(s) == SpaceSeparated_visit_str(s)

\* [String]::join(sep)
RECURSIVE str_join(_, _)
str_join(strs, sep) ==
    IF Len(strs) = 0 THEN <<>>
    ELSE IF Len(strs) = 1 THEN strs[1]
    ELSE strs[1] \o sep \o str_join(Tail(strs), sep)

space_separated_serialize(x) ==
    LET iter == [i \in 1..Len(x) |-> Scope_to_string(x[i])]
    IN  str_join(iter, <<" ">>)

(***************************************************************************)
(* Specification of the scope codec: Init draws either a text to decode or *)
(* a Scope to encode; the encoded text can be decoded again.  VisitStr is   *)
(* Scope's Deserialize driven by a deserializer holding the text as one    *)
(* string; FromStr is the parse through serde_scope.                        *)
(***************************************************************************)
InitCodec ==
    /\ auth = None
    /\ resource = <<>>
    /\ required_action = <<>>
    /\ \/ scopeIn = None /\ scopesIn = None /\ text \in {Some(t) : t \in Texts}
       \/ scopeIn \in {Some(sc) : sc \in CodecScopes} /\ scopesIn = None /\ text = None
       \/ scopeIn = None /\ text = None
          /\ scopesIn \in {Some(l) : l \in ListsUpTo(ListScopes, MaxScopes)}
    /\ op = "start"
    /\ result = None
    /\ CallIdle

ScopeToString ==
    /\ op = "start"
    /\ scopeIn # None
    /\ text' = Some(Scope_to_string(scopeIn[1]))
    /\ op' = "to_string"
    /\ UNCHANGED <<auth, resource, required_action, scopeIn, result, scopesIn, callVars>>

VisitStr ==
    /\ op = "start"
    /\ text # None
    /\ result' = Scope_deserialize(text[1]).value
    /\ op' = "visit_str"
    /\ UNCHANGED <<auth, resource, required_action, scopeIn, text, scopesIn, callVars>>

FromStr ==
    /\ op \in {"start", "to_string"}
    /\ text # None
    /\ result' = Scope_from_str(text[1])
    /\ op' = "from_str"
    /\ UNCHANGED <<auth, resource, required_action, scopeIn, text, scopesIn, callVars>>

\* Scope::new on the two strings of the caller's choice
ScopeNew ==
    /\ op = "start"
    /\ scopeIn # None
    /\ result' = Scope_new(scopeIn[1].action, scopeIn[1].resource)
    /\ op' = "scope_new"
    /\ UNCHANGED <<auth, resource, required_action, scopeIn, text, scopesIn, callVars>>

EncodeList ==
    /\ op = "start"
    /\ scopesIn # None
    /\ text' = Some(space_separated_serialize(scopesIn[1]))
    /\ op' = "encode_list"
    /\ UNCHANGED <<auth, resource, required_action, scopeIn, result, scopesIn, callVars>>

DecodeList ==
    /\ op \in {"start", "to_string", "encode_list"}
    /\ text # None
    /\ result' = space_separated_deserialize(text[1])
    /\ op' = "decode_list"
    /\ UNCHANGED <<auth, resource, required_action, scopeIn, text, scopesIn, callVars>>

NextCodec ==
    \/ ScopeToString
    \/ VisitStr
    \/ FromStr
    \/ ScopeNew
    \/ EncodeList
    \/ DecodeList

SpecCodec == InitCodec /\ [][NextCodec]_vars

(***************************************************************************)
(* Claims: deserialization of the aud field and Claims::new.               *)
(***************************************************************************)
\* the aud member of the JSON object: a string or an array of strings; value
\* holds the strings of the member in order (exactly one for a string)
WireAuds ==
    {[shape |-> "string", value |-> <<x>>] : x \in Names}
        \cup {[shape |-> "list", value |-> l] : l \in ListsUpTo(Names, MaxScopes)}

\* serde's derived Deserialize for the field `aud: String`: a JSON string is
\* taken as it is, any other JSON type is an error
Claims_deserialize_aud(wire) ==
    IF wire.shape = "string" THEN Ok(wire.value[1])
    ELSE Err([variant |-> "invalid type", found |-> "sequence", expected |-> "a string"])

Panic(msg) == [kind |-> "Panic", payload |-> msg]

Durations == [secs : 0..DurationMaxSecs, sub : 0..(SubsecsPerSec - 1)]

\* Duration + Duration: checked_add(..).expect("overflow when adding durations")
Duration_add(a, b) ==
    LET secs == a.secs + b.secs
        sub == a.sub + b.sub
    IN  IF secs > DurationMaxSecs THEN Panic("overflow when adding durations")
        ELSE IF sub >= SubsecsPerSec
             THEN IF secs + 1 > DurationMaxSecs
                  THEN Panic("overflow when adding durations")
                  ELSE Ok([secs |-> secs + 1, sub |-> sub - SubsecsPerSec])
             ELSE Ok([secs |-> secs, sub |-> sub])

\* Duration::as_secs
as_secs(d) == d.secs

\* variant: the two durations are cut to whole seconds before they are added
Claims_new_whole_seconds(iss, sub, aud, lifetime, extension, now) ==
    IF now.secs + lifetime.secs > DurationMaxSecs
    THEN Panic("overflow when adding durations")
    ELSE Ok([iss |-> iss, sub |-> sub, aud |-> aud, iat |-> as_secs(now),
             exp |-> as_secs(now) + as_secs(lifetime), extension |-> extension])

\* Claims::new; now is SystemTime::now().duration_since(UNIX_EPOCH)
Claims_new(iss, sub, aud, lifetime, extension, now) ==
    LET iat == now
        exp == Duration_add(iat, lifetime)
    IN  IF exp.kind = "Panic" THEN exp
        ELSE Ok([iss |-> iss, sub |-> sub, aud |-> aud, iat |-> as_secs(iat),
                 exp |-> as_secs(exp.payload), extension |-> extension])

(***************************************************************************)
(* Specification of the claims model: Init draws either the aud member of  *)
(* a JSON object to deserialize or the arguments of Claims::new and the    *)
(* system time.                                                            *)
(***************************************************************************)
InitClaims ==
    /\ auth = None
    /\ resource = <<>>
    /\ required_action = <<>>
    /\ scopeIn = None
    /\ text = None
    /\ scopesIn = None
    /\ op = "start"
    /\ result = None
    /\ req = None
    /\ cfg = None
    /\ pc = "idle"
    /\ steps = <<>>
    /\ log = <<>>
    /\ \/ /\ args \in {Some([call |-> "deserialize", aud |-> w]) : w \in WireAuds}
          /\ clock = 0
       \/ /\ args \in {Some([call |-> "new", iss |-> i, sub |-> <<"a">>, aud |-> a,
                             lifetime |-> l, extension |-> e]) :
                          i \in {<<"a">>, <<"A">>}, a \in {<<"a">>}, l \in Durations,
                          e \in ListsUpTo(ListScopes, 1)}
          /\ clock \in Durations

DeserializeClaims ==
    /\ op = "start"
    /\ args # None
    /\ args[1].call = "deserialize"
    /\ result' = Claims_deserialize_aud(args[1].aud)
    /\ op' = "deserialize_claims"
    /\ UNCHANGED <<auth, resource, required_action, scopeIn, text, scopesIn, callVars>>

ClaimsNew ==
    /\ op = "start"
    /\ args # None
    /\ args[1].call = "new"
    /\ result' = Claims_new(args[1].iss, args[1].sub, args[1].aud, args[1].lifetime,
                            args[1].extension, clock)
    /\ op' = "claims_new"
    /\ UNCHANGED <<auth, resource, required_action, scopeIn, text, scopesIn, callVars>>

NextClaims ==
    \/ DeserializeClaims
    \/ ClaimsNew

SpecClaims == InitClaims /\ [][NextClaims]_vars

(***************************************************************************)
(* AuthorizationMiddleware: the claims policy check.                       *)
(***************************************************************************)
Forwarded == [kind |-> "Forwarded", payload |-> <<>>]
NoToken == [kind |-> "NoToken", payload |-> <<>>]
NoIssuer == [kind |-> "NoIssuer", payload |-> <<>>]
InvalidClaims(message) == [kind |-> "InvalidClaims", payload |-> message]

\* require(condition, message): Ok(()) or Err(InvalidClaims(message)); the
\* error is written to the log before it is returned
require(condition, message) ==
    IF condition THEN [result |-> Ok(<<>>), log |-> <<>>]
    ELSE [result |-> InvalidClaims(message), log |-> <<message>>]

\* aud.into_iter().any(|aud| aud == expected_audience)
aud_any(aud, expected_audience) ==
    \E i \in 1..Len(aud) : aud[i] = expected_audience

\* variant: the audience is checked before the issuer
call_requires_audience_first(claims, issuer, expected_audience, timestamp) ==
    LET r1 == require(claims.iss = issuer, "Issuer does not match")
        r2 == require(aud_any(claims.aud, expected_audience), "Audience does not match")
        r3 == require(timestamp >= claims.iat, "Token issued for invalid time")
        r4 == require(timestamp <= claims.exp, "Token is expired")
    IN  IF r2.result.kind # "Ok" THEN r2
        ELSE IF r1.result.kind # "Ok" THEN r1
        ELSE IF r3.result.kind # "Ok" THEN r3
        ELSE r4

\* variant: a token is expired already in the second of its exp
call_requires_strict_expiry(claims, issuer, expected_audience, timestamp) ==
    LET r1 == require(claims.iss = issuer, "Issuer does not match")
        r2 == require(aud_any(claims.aud, expected_audience), "Audience does not match")
        r3 == require(timestamp >= claims.iat, "Token issued for invalid time")
        r4 == require(timestamp < claims.exp, "Token is expired")
    IN  IF r1.result.kind # "Ok" THEN r1
        ELSE IF r2.result.kind # "Ok" THEN r2
        ELSE IF r3.result.kind # "Ok" THEN r3
        ELSE r4

\* the four require(..)? lines of call: the first Err returns from the handler
call_requires(claims, issuer, expected_audience, timestamp) ==
    LET r1 == require(claims.iss = issuer, "Issuer does not match")
        r2 == require(aud_any(claims.aud, expected_audience), "Audience does not match")
        r3 == require(timestamp >= claims.iat, "Token issued for invalid time")
        r4 == require(timestamp <= claims.exp, "Token is expired")
    IN  IF r1.result.kind # "Ok" THEN r1
        ELSE IF r2.result.kind # "Ok" THEN r2
        ELSE IF r3.result.kind # "Ok" THEN r3
        ELSE r4

\* AuthorizationMiddleware::call; c is the middleware's configuration, r the
\* extensions of the request, timestamp is Utc::now().timestamp()
AuthorizationMiddleware_call(c, r, timestamp) ==
    IF ~c.enabled THEN [result |-> Forwarded, log |-> <<>>]
    ELSE IF r.issuer = None THEN [result |-> NoIssuer, log |-> <<>>]
    ELSE IF r.token = None THEN [result |-> NoToken, log |-> <<>>]
    ELSE LET checked == call_requires(r.token[1], r.issuer[1],
                                      c.expected_audience, timestamp)
         IN  IF checked.result.kind # "Ok" THEN checked
             ELSE [result |-> Forwarded, log |-> <<>>]

\* #[error(..)] of AuthorizationMiddlewareError: the pieces of the Display text
AuthorizationMiddlewareError_display(e) ==
    IF e.kind = "InvalidClaims" THEN <<"invalid claims: ", e.payload>>
    ELSE IF e.kind = "NoToken" THEN <<"no token">>
    ELSE <<"no issuer">>

\* forbidden_error_body(code, e): message is format!("Forbidden: {e}")
forbidden_error_body(code, display) ==
    [code |-> code, message |-> <<"Forbidden: ">> \o display]

\* internal_server_error_body(code, e)
internal_server_error_body(code, display) ==
    [code |-> code, message |-> <<"An internal error occurred: ">> \o display]

\* variant: every error of the middleware is an internal server error
status_code_all_internal(e) == 500

\* ResponseError::status_code for AuthorizationMiddlewareError
status_code(e) ==
    IF e.kind = "InvalidClaims" THEN 403 ELSE 500

\* ResponseError::error_response for AuthorizationMiddlewareError
error_response(e) ==
    [status |-> status_code(e),
     body |-> IF e.kind = "InvalidClaims"
              THEN forbidden_error_body("INVALID_CLAIMS", AuthorizationMiddlewareError_display(e))
              ELSE internal_server_error_body("INVALID", AuthorizationMiddlewareError_display(e))]

(***************************************************************************)
(* Specification of the authorization middleware: Init draws the           *)
(* configuration, the extensions of one request and the time; the action   *)
(* is the handling of the request.                                         *)
(***************************************************************************)
Issuers == {<<"a">>, <<"A">>}
Times == 0..MaxTime

TokenClaims ==
    [iss : Issuers, aud : ListsUpTo(Issuers, MaxAud), iat : Times, exp : Times]

InitPolicy ==
    /\ auth = None
    /\ resource = <<>>
    /\ required_action = <<>>
    /\ scopeIn = None
    /\ text = None
    /\ scopesIn = None
    /\ op = "start"
    /\ result = None
    /\ args = None
    /\ pc = "idle"
    /\ steps = <<>>
    /\ log = <<>>
    /\ cfg \in {Some(c) : c \in [enabled : BOOLEAN, expected_audience : Issuers]}
    /\ req \in {Some([issuer |-> i, token |-> t]) :
                  i \in {None} \cup {Some(x) : x \in Issuers},
                  t \in {None} \cup {Some(x) : x \in TokenClaims}}
    /\ clock \in Times

AuthorizationCall ==
    /\ op = "start"
    /\ LET out == AuthorizationMiddleware_call(cfg[1], req[1], clock)
       IN  /\ result' = out.result
           /\ log' = log \o out.log
    /\ op' = "authorization_call"
    /\ UNCHANGED <<auth, resource, required_action, scopeIn, text, scopesIn,
                   args, req, cfg, clock, pc, steps>>

\* the error returned by call is turned into the response of the request
ErrorResponse ==
    /\ op = "authorization_call"
    /\ result.kind \in {"InvalidClaims", "NoToken", "NoIssuer"}
    /\ args' = Some(error_response(result))
    /\ op' = "error_response"
    /\ UNCHANGED <<auth, resource, required_action, scopeIn, text, scopesIn,
                   result, req, cfg, clock, pc, steps, log>>

NextPolicy ==
    \/ AuthorizationCall
    \/ ErrorResponse

SpecPolicy == InitPolicy /\ [][NextPolicy]_vars

(***************************************************************************)
(* EncodedToken::decode.  An encoded token is described by what the        *)
(* jsonwebtoken functions read from it: its header (None when the string   *)
(* has no readable header), the key that made its signature, and its       *)
(* payload (None when it does not deserialize into Claims<Extension>).     *)
(***************************************************************************)
KeyIds == {"K1", "K2"}
KeyMaterial == {"k1", "k2"}

Headers == [kid : {None} \cup {Some(k) : k \in KeyIds}, alg : {"RS256", "HS256"}]

PayloadClaims == [iss : Issuers, aud : {<<>>, <<"a">>}, iat : Times, exp : Times]

EncodedTokens ==
    [header : {None} \cup {Some(h) : h \in Headers},
     signed_by : KeyMaterial \cup {"tampered"},
     payload : {None} \cup {Some(c) : c \in PayloadClaims}]

Jwks == [kid : {None} \cup {Some(k) : k \in KeyIds}, key : KeyMaterial]

TokenError(e) == [variant |-> "TokenError", source |-> e]
NoJWKError == [variant |-> "NoJWKError", source |-> <<>>]
NoKID == [variant |-> "NoKID", source |-> <<>>]

\* jsonwebtoken::decode_header
decode_header(encoded) ==
    IF encoded.header = None THEN Err("InvalidToken") ELSE Ok(encoded.header[1])

\* EncodedToken::header
EncodedToken_header(encoded) ==
    LET h == decode_header(encoded)
    IN  IF h.kind = "Err" THEN Err(TokenError(h.payload)) ELSE h

\* variant: the first key of the set is taken whatever its key id is
JwkSet_find_first(jwk_set, kid) ==
    IF Len(jwk_set) >= 1 THEN Some(jwk_set[1]) ELSE None

\* JwkSet::find: the first key of the set whose key id is Some(kid)
JwkSet_find(jwk_set, kid) ==
    IF \E i \in 1..Len(jwk_set) : jwk_set[i].kid = Some(kid)
    THEN LET i == CHOOSE k \in 1..Len(jwk_set) :
                      /\ jwk_set[k].kid = Some(kid)
                      /\ \A j \in 1..(k - 1) : jwk_set[j].kid # Some(kid)
         IN  Some(jwk_set[i])
    ELSE None

\* jsonwebtoken::decode::<Claims<Extension>>(encoded, key, Validation::new(RS256)):
\* the header's algorithm must be RS256, the signature must verify under the
\* key, the payload must deserialize, and exp must not lie more than the
\* leeway before the current time
jsonwebtoken_decode(encoded, decoding_key, now) ==
    IF encoded.header = None THEN Err("InvalidToken")
    ELSE IF encoded.header[1].alg # "RS256" THEN Err("InvalidAlgorithm")
    ELSE IF encoded.signed_by # decoding_key THEN Err("InvalidSignature")
    ELSE IF encoded.payload = None THEN Err("Json")
    ELSE IF encoded.payload[1].exp < now - Leeway THEN Err("ExpiredSignature")
    ELSE Ok([header |-> encoded.header[1], claims |-> encoded.payload[1]])

\* Token::new(header, claims)
Token_new_decoded(header, claims) == [header |-> header, claims |-> claims]

NoLocals == [header |-> None, key |-> None, decoded |-> None]

(***************************************************************************)
(* Specification of decode: Init draws the encoded token, the key set and  *)
(* the current time; the actions are the steps of decode in the order of   *)
(* its statements, each recorded in steps.                                 *)
(***************************************************************************)
DecodeClocks == {Leeway, Leeway + 1, Leeway + MaxTime + 1}

InitDecode ==
    /\ auth = None
    /\ resource = <<>>
    /\ required_action = <<>>
    /\ scopeIn = None
    /\ text = None
    /\ scopesIn = None
    /\ op = "decode"
    /\ result = None
    /\ cfg = None
    /\ log = <<>>
    /\ args = NoLocals
    /\ req \in {Some([encoded |-> e, jwk_set |-> s]) :
                  e \in EncodedTokens, s \in ListsUpTo(Jwks, MaxKeys)}
    /\ clock \in DecodeClocks
    /\ pc = "header"
    /\ steps = <<>>

\* self.header()?
ParseHeader ==
    /\ pc = "header"
    /\ steps' = Append(steps, "header")
    /\ LET h == EncodedToken_header(req[1].encoded)
       IN  IF h.kind = "Err"
           THEN /\ result' = h
                /\ pc' = "done"
                /\ args' = args
           ELSE /\ args' = [args EXCEPT !.header = Some(h.payload)]
                /\ pc' = "key"
                /\ result' = result
    /\ UNCHANGED <<auth, resource, required_action, scopeIn, text, scopesIn,
                   op, req, cfg, clock, log>>

\* .kid.ok_or(NoKID)?, jwk_set.find(&kid).ok_or(NoJWKError)?, DecodingKey::from_jwk(jwk)?
ResolveKey ==
    /\ pc = "key"
    /\ steps' = Append(steps, "key")
    /\ IF args.header[1].kid = None
       THEN /\ result' = Err(NoKID)
            /\ pc' = "done"
            /\ args' = args
       ELSE LET jwk == JwkSet_find(req[1].jwk_set, args.header[1].kid[1])
            IN  IF jwk = None
                THEN /\ result' = Err(NoJWKError)
                     /\ pc' = "done"
                     /\ args' = args
                ELSE /\ args' = [args EXCEPT !.key = jwk]
                     /\ pc' = "verify"
                     /\ result' = result
    /\ UNCHANGED <<auth, resource, required_action, scopeIn, text, scopesIn,
                   op, req, cfg, clock, log>>

\* variant: a failed verification does not end decode
VerifyAndDecode_goes_on ==
    /\ pc = "verify"
    /\ steps' = Append(steps, "verify")
    /\ LET d == jsonwebtoken_decode(req[1].encoded, args.key[1].key, clock)
       IN  /\ args' = [args EXCEPT !.decoded =
                         IF d.kind = "Err"
                         THEN Some([header |-> args.header[1], claims |-> <<>>])
                         ELSE Some(d.payload)]
           /\ pc' = "construct"
           /\ result' = result
    /\ UNCHANGED <<auth, resource, required_action, scopeIn, text, scopesIn,
                   op, req, cfg, clock, log>>

\* decode::<Claims<Extension>>(self.encoded(), &decoding_key, &validation)?
VerifyAndDecode ==
    /\ pc = "verify"
    /\ steps' = Append(steps, "verify")
    /\ LET d == jsonwebtoken_decode(req[1].encoded, args.key[1].key, clock)
       IN  IF d.kind = "Err"
           THEN /\ result' = Err(TokenError(d.payload))
                /\ pc' = "done"
                /\ args' = args
           ELSE /\ args' = [args EXCEPT !.decoded = Some(d.payload)]
                /\ pc' = "construct"
                /\ result' = result
    /\ UNCHANGED <<auth, resource, required_action, scopeIn, text, scopesIn,
                   op, req, cfg, clock, log>>

\* Ok(Token::new(decoded_token.header, decoded_token.claims))
ConstructToken ==
    /\ pc = "construct"
    /\ steps' = Append(steps, "construct")
    /\ result' = Ok(Token_new_decoded(args.decoded[1].header, args.decoded[1].claims))
    /\ pc' = "done"
    /\ UNCHANGED <<auth, resource, required_action, scopeIn, text, scopesIn,
                   op, args, req, cfg, clock, log>>

NextDecode ==
    \/ ParseHeader
    \/ ResolveKey
    \/ VerifyAndDecode
    \/ ConstructToken

SpecDecode == InitDecode /\ [][NextDecode]_vars

(***************************************************************************)
(* EncodedToken from an Authorization header value.                        *)
(***************************************************************************)
BearerPrefix == <<"B", "e", "a", "r", "e", "r", " ">>

BodyChars == {"a", "."}
Bodies == StringsUpTo(BodyChars, MaxBodyLen)

HeaderValues ==
    {p1 \o b1 \o p2 \o b2 : p1 \in {<<>>, BearerPrefix}, p2 \in {<<>>, BearerPrefix},
                            b1 \in Bodies, b2 \in Bodies}

\* the pattern occurs in s at position i
OccursAt(s, pattern, i) ==
    /\ i + Len(pattern) - 1 <= Len(s)
    /\ SubSeq(s, i, i + Len(pattern) - 1) = pattern

\* str::split with a string pattern: the segments between the occurrences
\* of the pattern, found from left to right without overlap
RECURSIVE str_split(_, _)
str_split(s, pattern) ==
    IF \E i \in 1..Len(s) : OccursAt(s, pattern, i)
    THEN LET i == CHOOSE k \in 1..Len(s) :
                      /\ OccursAt(s, pattern, k)
                      /\ \A j \in 1..(k - 1) : ~OccursAt(s, pattern, j)
         IN  <<SubSeq(s, 1, i - 1)>>
                \o str_split(SubSeq(s, i + Len(pattern), Len(s)), pattern)
    ELSE <<s>>

\* impl From<&str> for EncodedToken: split[1] is the second segment
EncodedToken_from_str(encoded) ==
    LET segments == str_split(encoded, BearerPrefix)
    IN  IF Len(segments) < 2
        THEN Panic("index out of bounds")
        ELSE Ok([encoded |-> segments[2]])

\* impl From<String> for EncodedToken
EncodedToken_from_string(encoded) == Ok([encoded |-> encoded])

InitBearer ==
    /\ auth = None
    /\ resource = <<>>
    /\ required_action = <<>>
    /\ scopeIn = None
    /\ scopesIn = None
    /\ op = "start"
    /\ result = None
    /\ text \in {Some(v) : v \in HeaderValues}
    /\ CallIdle

\* let encoded_token: EncodedToken = auth.into() with auth: &str
FromHeaderStr ==
    /\ op = "start"
    /\ result' = EncodedToken_from_str(text[1])
    /\ op' = "from_header_str"
    /\ UNCHANGED <<auth, resource, required_action, scopeIn, text, scopesIn, callVars>>

\* EncodedToken::from(value) with value: String
FromHeaderString ==
    /\ op = "start"
    /\ result' = EncodedToken_from_string(text[1])
    /\ op' = "from_header_string"
    /\ UNCHANGED <<auth, resource, required_action, scopeIn, text, scopesIn, callVars>>

NextBearer ==
    \/ FromHeaderStr
    \/ FromHeaderString

SpecBearer == InitBearer /\ [][NextBearer]_vars

(***************************************************************************)
(* The middlewares.  Several requests are handled at once; every request   *)
(* has its own headers and extensions, the middlewares' configuration and  *)
(* the logger are common to all of them.                                   *)
(***************************************************************************)
\* the whole of EncodedToken::decode
EncodedToken_decode(encoded, jwk_set, now) ==
    LET h == EncodedToken_header(encoded)
    IN  IF h.kind = "Err" THEN h
        ELSE IF h.payload.kid = None THEN Err(NoKID)
        ELSE LET jwk == JwkSet_find(jwk_set, h.payload.kid[1])
             IN  IF jwk = None THEN Err(NoJWKError)
                 ELSE LET d == jsonwebtoken_decode(encoded, jwk[1].key, now)
                      IN  IF d.kind = "Err" THEN Err(TokenError(d.payload))
                          ELSE Ok(Token_new_decoded(d.payload.header, d.payload.claims))

\* JWTMiddlewareError
NoAuthorizationHeader == [kind |-> "NoAuthorizationHeader", payload |-> <<>>]
InvalidAuthorizationHeader == [kind |-> "InvalidAuthorizationHeader", payload |-> <<>>]
NoJWKSet == [kind |-> "NoJWKSet", payload |-> <<>>]
InvalidEncodedToken == [kind |-> "InvalidEncodedToken", payload |-> <<>>]

\* JWTFactory::new and JWTFactory::enabled
JWTFactory_new == [enabled |-> TRUE]
JWTFactory_enabled(factory, value) == [factory EXCEPT !.enabled = value]

\* AuthorizationFactory::new and AuthorizationFactory::enabled
AuthorizationFactory_new(expected_audience) ==
    [enabled |-> TRUE, expected_audience |-> expected_audience]
AuthorizationFactory_enabled(factory, value) == [factory EXCEPT !.enabled = value]

\* the tokens that the header values of the requests carry, by the
\* character that stands for the token's text
ServedClaims == [iss |-> <<"a">>, aud |-> <<<<"a">>>>, iat |-> 0, exp |-> 0]

EncodedContent(encoded) ==
    IF encoded = <<"g">>
    THEN [header |-> Some([kid |-> Some("K1"), alg |-> "RS256"]),
          signed_by |-> "k1", payload |-> Some(ServedClaims)]
    ELSE IF encoded = <<"x">>
    THEN [header |-> Some([kid |-> Some("K1"), alg |-> "RS256"]),
          signed_by |-> "tampered", payload |-> Some(ServedClaims)]
    ELSE IF encoded = <<"n">>
    THEN [header |-> Some([kid |-> None, alg |-> "RS256"]),
          signed_by |-> "k1", payload |-> Some(ServedClaims)]
    ELSE [header |-> None, signed_by |-> "tampered", payload |-> None]

\* the Authorization header of a request: absent, not text, or a text
ServedHeaders ==
    {[present |-> FALSE, is_text |-> FALSE, value |-> <<>>],
     [present |-> TRUE, is_text |-> FALSE, value |-> <<>>]}
        \cup {[present |-> TRUE, is_text |-> TRUE, value |-> v] :
                v \in {BearerPrefix \o <<"g">>, BearerPrefix \o <<"x">>,
                       BearerPrefix \o <<"n">>, BearerPrefix \o <<"m">>, <<"g">>}}

ServedKeySets ==
    {None, Some(<<>>), Some(<<[kid |-> Some("K2"), key |-> "k2"],
                              [kid |-> Some("K1"), key |-> "k1"]>>)}

\* JWTMiddleware::call on its own: the result, the Token inserted into the
\* request's extensions, and the lines written to the log
JWTMiddleware_call(c, r, now) ==
    IF ~c.enabled THEN [result |-> Forwarded, inserted |-> None, log |-> <<>>]
    ELSE IF ~r.header.present
    THEN [result |-> NoAuthorizationHeader, inserted |-> None,
          log |-> <<"no authorization header present">>]
    ELSE IF ~r.header.is_text
    THEN [result |-> InvalidAuthorizationHeader, inserted |-> None,
          log |-> <<"authorization header is invalid">>]
    ELSE IF r.jwk_set = None
    THEN [result |-> NoJWKSet, inserted |-> None, log |-> <<"no JWK set available">>]
    ELSE LET encoded_token == EncodedToken_from_str(r.header.value)
         IN  IF encoded_token.kind = "Panic"
             THEN [result |-> encoded_token, inserted |-> None, log |-> <<>>]
             ELSE LET token == EncodedToken_decode(
                                  EncodedContent(encoded_token.payload.encoded),
                                  r.jwk_set[1], now)
                  IN  IF token.kind = "Err"
                      THEN [result |-> InvalidEncodedToken, inserted |-> None,
                            log |-> <<"encoded token is not valid">>]
                      ELSE [result |-> Forwarded, inserted |-> Some(token.payload),
                            log |-> <<>>]

(***************************************************************************)
(* Specification of the middlewares at work: Init draws the configuration  *)
(* of the two middlewares, the time and the requests; every action is one  *)
(* step of the handling of one request, and the steps of different         *)
(* requests interleave freely.                                             *)
(***************************************************************************)
Calls == {1, 2}

ServedTokens ==
    {[iss |-> <<"a">>, aud |-> <<<<"a">>>>, iat |-> 0, exp |-> Leeway],
     [iss |-> <<"A">>, aud |-> <<>>, iat |-> 0, exp |-> Leeway]}

ServedScopes == {<<>>, <<Scope_new(<<"a">>, <<"a">>)>>,
                 <<Scope_new(<<"a">>, <<"a">>), Scope_new(<<"a", "b">>, <<"a">>)>>}

ServedRequests ==
    {[kind |-> "jwt", header |-> h, jwk_set |-> k] :
        h \in ServedHeaders, k \in ServedKeySets}
    \cup {[kind |-> "authorization", issuer |-> i, token |-> t] :
            i \in {None, Some(<<"a">>)},
            t \in {None} \cup {Some(c) : c \in ServedTokens}}
    \cup {[kind |-> "authorize", auth |-> a, resource |-> r, action |-> x] :
            a \in {None} \cup {Some(l) : l \in ServedScopes},
            r \in {<<"a">>, <<"A">>}, x \in {<<"a">>, <<"a", "b">>}}

\* what the handler of a request holds, and the Token slot of the request's
\* extensions
NoCallLocals ==
    [auth |-> None, jwk_set |-> None, encoded_token |-> None, token |-> None,
     issuer |-> None, inserted |-> None]

InitServe ==
    /\ auth = None
    /\ resource = <<>>
    /\ required_action = <<>>
    /\ scopeIn = None
    /\ text = None
    /\ scopesIn = None
    /\ op = "serve"
    /\ cfg \in {[jwt |-> j, authorization |-> a] :
                  j \in {JWTFactory_new, JWTFactory_enabled(JWTFactory_new, FALSE)},
                  a \in {AuthorizationFactory_new(<<"a">>),
                         AuthorizationFactory_enabled(AuthorizationFactory_new(<<"a">>), FALSE)}}
    /\ clock \in {Leeway, Leeway + 1}
    /\ req \in [Calls -> ServedRequests]
    /\ args = [i \in Calls |-> NoCallLocals]
    /\ pc = [i \in Calls |-> "start"]
    /\ steps = [i \in Calls |-> <<>>]
    /\ result = [i \in Calls |-> None]
    /\ log = <<>>

\* the handler of request i goes on to the next step
GoOn(i, step, next) ==
    /\ steps' = [steps EXCEPT ![i] = Append(@, step)]
    /\ pc' = [pc EXCEPT ![i] = next]
    /\ result' = result
    /\ log' = log

\* the handler of request i returns
Return(i, step, outcome, lines) ==
    /\ steps' = [steps EXCEPT ![i] = Append(@, step)]
    /\ pc' = [pc EXCEPT ![i] = "done"]
    /\ result' = [result EXCEPT ![i] = outcome]
    /\ log' = log \o lines

\* if !*enabled
JwtEnabled(i) ==
    /\ req[i].kind = "jwt"
    /\ pc[i] = "start"
    /\ GoOn(i, "enabled", IF cfg.jwt.enabled THEN "header" ELSE "service")
    /\ args' = args
    /\ UNCHANGED <<auth, resource, required_action, scopeIn, text, scopesIn, op,
                   req, cfg, clock>>

\* headers.get("Authorization").ok_or(NoAuthorizationHeader)?.to_str()
\*     .map_err(|_| InvalidAuthorizationHeader)?
JwtHeader(i) ==
    /\ req[i].kind = "jwt"
    /\ pc[i] = "header"
    /\ IF ~req[i].header.present
       THEN /\ Return(i, "header", NoAuthorizationHeader,
                      <<"no authorization header present">>)
            /\ args' = args
       ELSE IF ~req[i].header.is_text
       THEN /\ Return(i, "header", InvalidAuthorizationHeader,
                      <<"authorization header is invalid">>)
            /\ args' = args
       ELSE /\ GoOn(i, "header", "jwk_set")
            /\ args' = [args EXCEPT ![i].auth = Some(req[i].header.value)]
    /\ UNCHANGED <<auth, resource, required_action, scopeIn, text, scopesIn, op,
                   req, cfg, clock>>

\* req.extensions().get::<JwkSet>().ok_or(NoJWKSet)?.clone()
JwtKeySet(i) ==
    /\ req[i].kind = "jwt"
    /\ pc[i] = "jwk_set"
    /\ IF req[i].jwk_set = None
       THEN /\ Return(i, "jwk_set", NoJWKSet, <<"no JWK set available">>)
            /\ args' = args
       ELSE /\ GoOn(i, "jwk_set", "from")
            /\ args' = [args EXCEPT ![i].jwk_set = req[i].jwk_set]
    /\ UNCHANGED <<auth, resource, required_action, scopeIn, text, scopesIn, op,
                   req, cfg, clock>>

\* let encoded_token: EncodedToken = auth.into()
JwtFrom(i) ==
    /\ req[i].kind = "jwt"
    /\ pc[i] = "from"
    /\ LET encoded_token == EncodedToken_from_str(args[i].auth[1])
       IN  IF encoded_token.kind = "Panic"
           THEN /\ Return(i, "from", encoded_token, <<>>)
                /\ args' = args
           ELSE /\ GoOn(i, "from", "decode")
                /\ args' = [args EXCEPT ![i].encoded_token = Some(encoded_token.payload)]
    /\ UNCHANGED <<auth, resource, required_action, scopeIn, text, scopesIn, op,
                   req, cfg, clock>>

\* variant: the key set is the one of the first request in flight
JwtDecode_first_key_set(i) ==
    /\ req[i].kind = "jwt"
    /\ pc[i] = "decode"
    /\ LET first == CHOOSE j \in Calls : \A k \in Calls : j <= k
           key_set == IF req[first].kind = "jwt" /\ req[first].jwk_set # None
                      THEN req[first].jwk_set[1] ELSE args[i].jwk_set[1]
           token == EncodedToken_decode(EncodedContent(args[i].encoded_token[1].encoded),
                                        key_set, clock)
       IN  IF token.kind = "Err"
           THEN /\ Return(i, "decode", InvalidEncodedToken, <<"encoded token is not valid">>)
                /\ args' = args
           ELSE /\ GoOn(i, "decode", "insert")
                /\ args' = [args EXCEPT ![i].token = Some(token.payload)]
    /\ UNCHANGED <<auth, resource, required_action, scopeIn, text, scopesIn, op,
                   req, cfg, clock>>

\* encoded_token.decode(&jwk_set).map_err(|_| InvalidEncodedToken)?
JwtDecode(i) ==
    /\ req[i].kind = "jwt"
    /\ pc[i] = "decode"
    /\ LET token == EncodedToken_decode(EncodedContent(args[i].encoded_token[1].encoded),
                                        args[i].jwk_set[1], clock)
       IN  IF token.kind = "Err"
           THEN /\ Return(i, "decode", InvalidEncodedToken, <<"encoded token is not valid">>)
                /\ args' = args
           ELSE /\ GoOn(i, "decode", "insert")
                /\ args' = [args EXCEPT ![i].token = Some(token.payload)]
    /\ UNCHANGED <<auth, resource, required_action, scopeIn, text, scopesIn, op,
                   req, cfg, clock>>

\* variant: the token is not put into the extensions of the request
JwtInsert_skipped(i) ==
    /\ req[i].kind = "jwt"
    /\ pc[i] = "insert"
    /\ GoOn(i, "insert", "service")
    /\ args' = args
    /\ UNCHANGED <<auth, resource, required_action, scopeIn, text, scopesIn, op,
                   req, cfg, clock>>

\* req.extensions_mut().insert(token)
JwtInsert(i) ==
    /\ req[i].kind = "jwt"
    /\ pc[i] = "insert"
    /\ GoOn(i, "insert", "service")
    /\ args' = [args EXCEPT ![i].inserted = args[i].token]
    /\ UNCHANGED <<auth, resource, required_action, scopeIn, text, scopesIn, op,
                   req, cfg, clock>>

\* service.call(req).await
JwtService(i) ==
    /\ req[i].kind = "jwt"
    /\ pc[i] = "service"
    /\ Return(i, "service", Forwarded, <<>>)
    /\ args' = args
    /\ UNCHANGED <<auth, resource, required_action, scopeIn, text, scopesIn, op,
                   req, cfg, clock>>

\* variant: the disabled middleware still looks up the issuer
AuthzEnabled_always_checks(i) ==
    /\ req[i].kind = "authorization"
    /\ pc[i] = "start"
    /\ GoOn(i, "enabled", "issuer")
    /\ args' = args
    /\ UNCHANGED <<auth, resource, required_action, scopeIn, text, scopesIn, op,
                   req, cfg, clock>>

\* if !*enabled
AuthzEnabled(i) ==
    /\ req[i].kind = "authorization"
    /\ pc[i] = "start"
    /\ GoOn(i, "enabled", IF cfg.authorization.enabled THEN "issuer" ELSE "service")
    /\ args' = args
    /\ UNCHANGED <<auth, resource, required_action, scopeIn, text, scopesIn, op,
                   req, cfg, clock>>

\* extensions.get::<I>().ok_or(NoIssuer)?.url()
AuthzIssuer(i) ==
    /\ req[i].kind = "authorization"
    /\ pc[i] = "issuer"
    /\ IF req[i].issuer = None
       THEN /\ Return(i, "issuer", NoIssuer, <<>>)
            /\ args' = args
       ELSE /\ GoOn(i, "issuer", "token")
            /\ args' = [args EXCEPT ![i].issuer = req[i].issuer]
    /\ UNCHANGED <<auth, resource, required_action, scopeIn, text, scopesIn, op,
                   req, cfg, clock>>

\* extensions.get::<AccessToken>().ok_or(NoToken)?.clone()
AuthzToken(i) ==
    /\ req[i].kind = "authorization"
    /\ pc[i] = "token"
    /\ IF req[i].token = None
       THEN /\ Return(i, "token", NoToken, <<>>)
            /\ args' = args
       ELSE /\ GoOn(i, "token", "claims")
            /\ args' = [args EXCEPT ![i].token = req[i].token]
    /\ UNCHANGED <<auth, resource, required_action, scopeIn, text, scopesIn, op,
                   req, cfg, clock>>

\* token.claims().clone(), Utc::now().timestamp() and the four require(..)?
AuthzClaims(i) ==
    /\ req[i].kind = "authorization"
    /\ pc[i] = "claims"
    /\ LET checked == call_requires(args[i].token[1], args[i].issuer[1],
                                    cfg.authorization.expected_audience, clock)
       IN  IF checked.result.kind # "Ok"
           THEN Return(i, "claims", checked.result, checked.log)
           ELSE GoOn(i, "claims", "service")
    /\ args' = args
    /\ UNCHANGED <<auth, resource, required_action, scopeIn, text, scopesIn, op,
                   req, cfg, clock>>

\* service.call(req).await
AuthzService(i) ==
    /\ req[i].kind = "authorization"
    /\ pc[i] = "service"
    /\ Return(i, "service", Forwarded, <<>>)
    /\ args' = args
    /\ UNCHANGED <<auth, resource, required_action, scopeIn, text, scopesIn, op,
                   req, cfg, clock>>

\* a call of authorize
AuthorizeCall(i) ==
    /\ req[i].kind = "authorize"
    /\ pc[i] = "start"
    /\ Return(i, "authorize", authorize(req[i].auth, req[i].resource, req[i].action), <<>>)
    /\ args' = args
    /\ UNCHANGED <<auth, resource, required_action, scopeIn, text, scopesIn, op,
                   req, cfg, clock>>

NextServe ==
    \E i \in Calls :
        \/ JwtEnabled(i)
        \/ JwtHeader(i)
        \/ JwtKeySet(i)
        \/ JwtFrom(i)
        \/ JwtDecode(i)
        \/ JwtInsert(i)
        \/ JwtService(i)
        \/ AuthzEnabled(i)
        \/ AuthzIssuer(i)
        \/ AuthzToken(i)
        \/ AuthzClaims(i)
        \/ AuthzService(i)
        \/ AuthorizeCall(i)

SpecServe == InitServe /\ [][NextServe]_vars

(***************************************************************************)
(* Properties of the authorization decision.                               *)
(***************************************************************************)
TokenScopes == auth[1]

\* some scope of the list grants exactly (res, act)
Grants(scopes, res, act) ==
    \E i \in 1..Len(scopes) : scopes[i].resource = res /\ scopes[i].action = act

\* some scope of the list names res
NamesResource(scopes, res) ==
    \E i \in 1..Len(scopes) : scopes[i].resource = res

\* the actions of the scopes naming res, in list order
ActionsOf(scopes, res) ==
    LET sel == SelectSeq(scopes, LAMBDA s : s.resource = res)
    IN  [i \in 1..Len(sel) |-> sel[i].action]

Decided == op \in {"authorize", "verify"}

\* C1: authorize and verify return Ok exactly when the token is present and
\* one of its scopes has the requested resource and the requested action.
C1_OkIffGranted ==
    Decided =>
        (result.kind = "Ok"
            <=> (auth # None /\ Grants(TokenScopes, resource, required_action)))

C1_Witness ==
    /\ op = "authorize"
    /\ result.kind = "Ok"
    /\ Len(TokenScopes) = 2
    /\ TokenScopes[1].resource # resource
    /\ TokenScopes[2] = Scope_new(required_action, resource)

\* C2: with no token, authorize and verify fail with Unauthorized whatever
\* the resource and the action are, never with one of the other two errors.
C2_AbsentIsUnauthorized ==
    (Decided /\ auth = None) => result = Unauthorized

C2_Witness ==
    /\ op = "verify"
    /\ auth = None
    /\ result.kind = "Unauthorized"
    /\ resource # <<>>

\* C3: with a token none of whose scopes names the requested resource,
\* authorize and verify fail with UnauthorizedResource carrying the
\* requested resource, whatever the requested action is.
C3_UnknownResource ==
    (Decided /\ auth # None /\ ~NamesResource(TokenScopes, resource))
        => result = UnauthorizedResource(resource)

C3_Witness ==
    /\ op = "authorize"
    /\ auth # None
    /\ result.kind = "UnauthorizedResource"
    /\ \E i \in 1..Len(TokenScopes) : TokenScopes[i].action = required_action
    /\ resource # required_action

\* C4: with a token that names the requested resource but grants no scope
\* with that resource and the requested action (compared exactly, so "A"
\* does not match "a"), authorize and verify fail with UnauthorizedAction
\* carrying the requested action.
C4_UnknownAction ==
    (Decided /\ auth # None /\ NamesResource(TokenScopes, resource)
             /\ ~Grants(TokenScopes, resource, required_action))
        => result = UnauthorizedAction(required_action)

C4_Witness ==
    /\ op = "verify"
    /\ result.kind = "UnauthorizedAction"
    /\ required_action = <<"a">>
    /\ Grants(TokenScopes, resource, <<"A">>)

\* C5: resources() has exactly the resources of the scope list as keys and
\* maps each to the actions of the scopes naming it, in list order, with
\* duplicates kept; the index built by Token::new is the same.
C5_IndexGroupsInOrder ==
    /\ op = "resources" =>
          /\ DOMAIN result = {TokenScopes[i].resource : i \in 1..Len(TokenScopes)}
          /\ \A r \in DOMAIN result :
                /\ result[r] = ActionsOf(TokenScopes, r)
                /\ Len(result[r]) =
                     Cardinality({i \in 1..Len(TokenScopes) : TokenScopes[i].resource = r})
    /\ op = "token_new" =>
          /\ DOMAIN result.resources =
                {TokenScopes[i].resource : i \in 1..Len(TokenScopes)}
          /\ \A r \in DOMAIN result.resources :
                result.resources[r] = ActionsOf(TokenScopes, r)

C5_Witness ==
    /\ op = "resources"
    /\ \E r \in DOMAIN result :
          /\ Len(result[r]) = 2
          /\ result[r][1] = result[r][2]

\* C6: actions(token, resource) is None exactly when no scope of the token
\* names the resource, and a returned list is never empty.
C6_ActionsNoneIffUnnamed ==
    op \in {"actions", "token_actions"} =>
        /\ result = None <=> ~NamesResource(TokenScopes, resource)
        /\ result # None => Len(result[1]) >= 1

C6_Witness ==
    /\ op = "actions"
    /\ result = None
    /\ Len(TokenScopes) = 2

(***************************************************************************)
(* Properties of the scope codec.                                          *)
(***************************************************************************)
HasColon(t) == \E i \in 1..Len(t) : t[i] = ":"

ColonCount(t) == Cardinality({i \in 1..Len(t) : t[i] = ":"})

FirstColon(t) == CHOOSE i \in 1..Len(t) : t[i] = ":" /\ \A j \in 1..(i - 1) : t[j] # ":"

\* a Scope whose two fields are non-empty and contain no colon
ValidScope(sc) ==
    /\ Len(sc.action) >= 1
    /\ Len(sc.resource) >= 1
    /\ ~HasColon(sc.action)
    /\ ~HasColon(sc.resource)

\* t is a, one colon, r
IsPairText(t, a, r) ==
    /\ Len(t) = Len(a) + 1 + Len(r)
    /\ \A i \in 1..Len(a) : t[i] = a[i]
    /\ t[Len(a) + 1] = ":"
    /\ \A i \in 1..Len(r) : t[Len(a) + 1 + i] = r[i]

\* the text before the first colon is empty
EmptyActionSegment(t) == HasColon(t) /\ FirstColon(t) = 1

\* the text between the first colon and the next colon (or the end) is empty
EmptyResourceSegment(t) ==
    /\ HasColon(t)
    /\ \/ FirstColon(t) = Len(t)
       \/ t[FirstColon(t) + 1] = ":"

\* C7: for every valid Scope s, the encoding of s is its action, one colon
\* and its resource, and decoding that text gives back s.
C7_RoundTrip ==
    (scopeIn # None /\ ValidScope(scopeIn[1])) =>
        /\ op \in {"to_string", "from_str"} =>
              /\ text # None
              /\ IsPairText(text[1], scopeIn[1].action, scopeIn[1].resource)
              /\ ColonCount(text[1]) = 1
        /\ op = "from_str" => result = Ok(scopeIn[1])

C7_Witness ==
    /\ op = "from_str"
    /\ scopeIn # None
    /\ ValidScope(scopeIn[1])
    /\ Len(scopeIn[1].action) = 2
    /\ scopeIn[1].action # scopeIn[1].resource
    /\ result.kind = "Ok"

\* C8: decoding one scope text fails with the format error naming the text
\* when the text has no colon, or its action segment is empty, or its
\* resource segment is empty; no Scope is returned then.
C8_FormatError ==
    (op \in {"visit_str", "from_str"}
        /\ (~HasColon(text[1]) \/ EmptyActionSegment(text[1])
                               \/ EmptyResourceSegment(text[1])))
    => /\ result.kind = "Err"
       /\ op = "visit_str" =>
             result.payload = de_custom(InvalidScopeFormat(text[1]))
       /\ op = "from_str" =>
             result.payload = DeserializeError(de_custom(InvalidScopeFormat(text[1])))

C8_Witness ==
    /\ op = "from_str"
    /\ scopeIn = None
    /\ Len(text[1]) = 2
    /\ text[1][1] # ":"
    /\ text[1][2] = ":"
    /\ result.kind = "Err"

\* C9: decoding one scope text with more than one colon is rejected with an
\* error; no Scope is built from the first two segments only.
C9_MultiColonRejected ==
    (op = "visit_str" /\ ColonCount(text[1]) > 1) => result.kind = "Err"

RECURSIVE JoinWithSpace(_)
JoinWithSpace(segs) ==
    IF Len(segs) = 0 THEN <<>>
    ELSE IF Len(segs) = 1 THEN segs[1]
    ELSE segs[1] \o <<" ">> \o JoinWithSpace(Tail(segs))

\* segs are the pieces of t between its single spaces
SplitsOnSingleSpaces(t, segs) ==
    /\ Len(segs) >= 1
    /\ JoinWithSpace(segs) = t
    /\ \A i \in 1..Len(segs) : \A j \in 1..Len(segs[i]) : segs[i][j] # " "

\* C10: decode_list splits the text on single spaces and decodes every
\* segment on its own: when all segments decode, the result is the decoded
\* scopes in segment order, one per segment; otherwise the result is the
\* error of the first segment that does not decode, and no list.
C10_DecodeList ==
    op = "decode_list" =>
        \E segs \in {split(text[1], " ")} :
            /\ SplitsOnSingleSpaces(text[1], segs)
            /\ IF \A i \in 1..Len(segs) : Scope_from_str(segs[i]).kind = "Ok"
               THEN /\ result.kind = "Ok"
                    /\ Len(result.payload) = Len(segs)
                    /\ \A i \in 1..Len(segs) :
                          Ok(result.payload[i]) = Scope_from_str(segs[i])
               ELSE \E k \in 1..Len(segs) :
                    /\ Scope_from_str(segs[k]).kind = "Err"
                    /\ \A j \in 1..(k - 1) : Scope_from_str(segs[j]).kind = "Ok"
                    /\ result = Err(de_custom(Scope_from_str(segs[k]).payload))

C10_Witness ==
    /\ op = "decode_list"
    /\ result.kind = "Ok"
    /\ Len(result.payload) = 2
    /\ result.payload[1] # result.payload[2]

\* C11: for every sequence of valid Scopes, encode_list gives the scopes'
\* encodings joined by single spaces, and decode_list of that text gives
\* back the sequence, same order and length.
C11_ListRoundTrip ==
    (scopesIn # None /\ \A i \in 1..Len(scopesIn[1]) : ValidScope(scopesIn[1][i])) =>
        /\ op \in {"encode_list", "decode_list"} =>
              text = Some(JoinWithSpace([i \in 1..Len(scopesIn[1]) |->
                               scopesIn[1][i].action \o <<":">> \o scopesIn[1][i].resource]))
        /\ op = "decode_list" => result = Ok(scopesIn[1])

\* C12: every Scope that Scope::new or the decoding of a text returns has a
\* non-empty action and a non-empty resource.
C12_ScopeFieldsNonEmpty ==
    /\ op = "scope_new" => (Len(result.action) >= 1 /\ Len(result.resource) >= 1)
    /\ (op \in {"visit_str", "from_str"} /\ result.kind = "Ok") =>
          (Len(result.payload.action) >= 1 /\ Len(result.payload.resource) >= 1)

(***************************************************************************)
(* Properties of the claims model.                                         *)
(***************************************************************************)
\* the audiences of the JSON member, as a sequence
WireAudiences(w) == w.value

\* C13: claims whose aud is the string x and claims whose aud is the list
\* [x] both deserialize, and their audiences are the sequence [x]; for a
\* list-shaped aud the audiences are the list in order.
C13_AudEitherShape ==
    op = "deserialize_claims" =>
        /\ result.kind = "Ok"
        /\ <<result.payload>> = WireAudiences(args[1].aud)

\* the whole seconds of a + b, computed on the total of sub-second units
WholeSecondsOfSum(a, b) ==
    ((a.secs * SubsecsPerSec + a.sub) + (b.secs * SubsecsPerSec + b.sub)) \div SubsecsPerSec

\* C20 as stated: Claims::new sets iat to the current time in whole seconds
\* and exp to exactly iat + lifetime in seconds, so that iat <= exp for
\* every lifetime; the other fields are the arguments.
C20_ExpIsIatPlusLifetime ==
    op = "claims_new" =>
        /\ result.kind = "Ok"
        /\ result.payload.iat = clock.secs
        /\ result.payload.exp = result.payload.iat + args[1].lifetime.secs
        /\ result.payload.iat <= result.payload.exp

\* C20 as amended: exp is the whole seconds of (current time + lifetime),
\* which is iat + lifetime for a lifetime of whole seconds and otherwise
\* iat + the whole seconds of lifetime or one more; iat <= exp whenever
\* Claims are returned; the call panics when the sum overflows Duration;
\* the other fields are the arguments.
C20_ExpIsWholeSecondsOfSum ==
    op = "claims_new" =>
        IF WholeSecondsOfSum(clock, args[1].lifetime) > DurationMaxSecs
        THEN result.kind = "Panic"
        ELSE /\ result.kind = "Ok"
             /\ result.payload.iat = clock.secs
             /\ result.payload.exp = WholeSecondsOfSum(clock, args[1].lifetime)
             /\ args[1].lifetime.sub = 0 =>
                   result.payload.exp = result.payload.iat + args[1].lifetime.secs
             /\ result.payload.exp >= result.payload.iat + args[1].lifetime.secs
             /\ result.payload.exp <= result.payload.iat + args[1].lifetime.secs + 1
             /\ result.payload.iat <= result.payload.exp
             /\ result.payload.iss = args[1].iss
             /\ result.payload.sub = args[1].sub
             /\ result.payload.aud = args[1].aud
             /\ result.payload.extension = args[1].extension

C20_Witness ==
    /\ op = "claims_new"
    /\ result.kind = "Ok"
    /\ args[1].lifetime.secs >= 1
    /\ result.payload.exp = result.payload.iat + args[1].lifetime.secs + 1

(***************************************************************************)
(* Properties of the claims policy check.                                  *)
(***************************************************************************)
\* the handler reached the policy check of a token
PolicyChecked ==
    /\ op = "authorization_call"
    /\ cfg[1].enabled
    /\ req[1].issuer # None
    /\ req[1].token # None

CheckedClaims == req[1].token[1]

IssuerMatches == CheckedClaims.iss = req[1].issuer[1]
AudienceMatches ==
    cfg[1].expected_audience \in {CheckedClaims.aud[i] : i \in 1..Len(CheckedClaims.aud)}
NotYetValid == clock < CheckedClaims.iat
Expired == clock > CheckedClaims.exp

\* C14: the policy check passes exactly when the issuer is the expected
\* one, the expected audience is among the token's audiences, and
\* iat <= now <= exp, both ends included.
C14_PolicyPassesIff ==
    PolicyChecked =>
        (result = Forwarded
            <=> (IssuerMatches /\ AudienceMatches /\ ~NotYetValid /\ ~Expired))

C14_Witness ==
    /\ PolicyChecked
    /\ result = Forwarded
    /\ clock = CheckedClaims.iat
    /\ clock = CheckedClaims.exp
    /\ clock > 0
    /\ Len(CheckedClaims.aud) = 2
    /\ CheckedClaims.aud[1] # cfg[1].expected_audience

\* the reasons the caller and the log get to see
ObservedReasons ==
    (IF result.kind = "InvalidClaims" THEN {result.payload} ELSE {})
        \cup {log[i] : i \in 1..Len(log)}

\* C15: each failed predicate has its own reason, and every predicate that
\* failed for the token has its reason observable, whichever others failed.
C15_EveryFailureObservable ==
    PolicyChecked =>
        /\ ~IssuerMatches => "Issuer does not match" \in ObservedReasons
        /\ ~AudienceMatches => "Audience does not match" \in ObservedReasons
        /\ NotYetValid => "Token issued for invalid time" \in ObservedReasons
        /\ Expired => "Token is expired" \in ObservedReasons

(***************************************************************************)
(* Properties of decode.                                                   *)
(***************************************************************************)
Encoded == req[1].encoded
KeySet == req[1].jwk_set

StepRan(name) == \E i \in 1..Len(steps) : steps[i] = name

HeaderReadable == Encoded.header # None
HeaderKid == Encoded.header[1].kid

\* the key set has an entry with the key id of the header
KidInSet == \E i \in 1..Len(KeySet) : KeySet[i].kid = HeaderKid

\* C16: key resolution fails with NoKID when the header has no key id and
\* with NoJWKError when no entry of the key set has the header's key id; a
\* key is selected only when it is an entry with exactly that key id.
C16_KeyResolution ==
    (op = "decode" /\ StepRan("key")) =>
        /\ HeaderKid = None => (result = Err(NoKID) /\ args.key = None)
        /\ (HeaderKid # None /\ ~KidInSet) =>
              (result = Err(NoJWKError) /\ args.key = None)
        /\ args.key # None =>
              /\ HeaderKid # None
              /\ args.key[1].kid = HeaderKid
              /\ \E i \in 1..Len(KeySet) : KeySet[i] = args.key[1]

C16_Witness ==
    /\ op = "decode"
    /\ pc = "done"
    /\ HeaderReadable
    /\ HeaderKid = Some("K1")
    /\ Len(KeySet) = 2
    /\ \A i \in 1..Len(KeySet) : KeySet[i].kid = Some("K2")
    /\ result = Err(NoJWKError)

HeaderFails == ~HeaderReadable
KeyFails == HeaderKid = None \/ ~KidInSet

\* the entry of the key set that key resolution selects
FirstWithKid ==
    KeySet[CHOOSE i \in 1..Len(KeySet) :
              KeySet[i].kid = HeaderKid /\ \A j \in 1..(i - 1) : KeySet[j].kid # HeaderKid]

SignatureValid ==
    /\ Encoded.header[1].alg = "RS256"
    /\ Encoded.signed_by = FirstWithKid.key

Pipeline == <<"header", "key", "verify", "construct">>

\* C17: decode is the linear pipeline header, key, verify, construct; a
\* Token is the result only after all four steps ran in that order; the
\* first failing step ends decode with its error, no later step runs and
\* no step runs twice.
C17_LinearPipeline ==
    op = "decode" =>
        /\ Len(steps) <= 4
        /\ steps = SubSeq(Pipeline, 1, Len(steps))
        /\ pc # "done" => (result = None /\ Len(steps) < 4 /\ pc = Pipeline[Len(steps) + 1])
        /\ (Len(steps) >= 1 /\ HeaderFails) =>
              (pc = "done" /\ steps = <<"header">> /\ result = Err(TokenError("InvalidToken")))
        /\ (Len(steps) >= 2 /\ KeyFails) =>
              (pc = "done" /\ steps = <<"header", "key">>
                 /\ result \in {Err(NoKID), Err(NoJWKError)})
        /\ (Len(steps) >= 3 /\ result # None /\ result.kind = "Err") =>
              (pc = "done" /\ Len(steps) = 3 /\ result.payload.variant = "TokenError")
        /\ (Len(steps) >= 3 /\ ~SignatureValid) =>
              (pc = "done" /\ Len(steps) = 3 /\ result.kind = "Err")
        /\ (result # None /\ result.kind = "Ok") =>
              (pc = "done" /\ steps = Pipeline /\ SignatureValid
                 /\ result.payload.claims = Encoded.payload[1])

C17_Witness ==
    /\ op = "decode"
    /\ pc = "done"
    /\ steps = <<"header", "key", "verify">>
    /\ Encoded.signed_by = "tampered"
    /\ result = Err(TokenError("InvalidSignature"))

\* C18: decode makes no issuer, audience or expiry check: a token with a
\* valid RS256 signature under a key of the key set and well-formed claims
\* is verified whatever iss, aud, iat and exp are, also with exp in the past.
C18_NoExpiryCheckInDecode ==
    (op = "decode" /\ pc = "done" /\ HeaderReadable /\ ~KeyFails
        /\ SignatureValid /\ Encoded.payload # None)
    => /\ result.kind = "Ok"
       /\ result.payload.claims = Encoded.payload[1]

(***************************************************************************)
(* Properties of EncodedToken construction.                                *)
(***************************************************************************)
HasBearerPrefix(v) ==
    Len(v) >= Len(BearerPrefix) /\ SubSeq(v, 1, Len(BearerPrefix)) = BearerPrefix

WithoutBearerPrefix(v) == SubSeq(v, Len(BearerPrefix) + 1, Len(v))

\* C19: an EncodedToken built from a header value stores the value with
\* the prefix "Bearer " removed when the value starts with it and the value
\* unchanged otherwise, and the construction never panics.
C19_BearerPrefixOptional ==
    op \in {"from_header_str", "from_header_string"} =>
        /\ result.kind = "Ok"
        /\ result.payload.encoded =
              IF HasBearerPrefix(text[1]) THEN WithoutBearerPrefix(text[1]) ELSE text[1]

(***************************************************************************)
(* Order of the scope list.                                                *)
(***************************************************************************)
\* the lists that hold the elements of l in another order
Reorderings(l) ==
    {[i \in 1..Len(l) |-> l[p[i]]] :
        p \in {q \in [1..Len(l) -> 1..Len(l)] :
                 \A i, j \in 1..Len(l) : q[i] = q[j] => i = j}}

\* C21: the outcome of authorize, kind and payload, is the same for every
\* permutation of the token's scope list, for every resource and action.
C21_PermutationInvariant ==
    (op = "authorize" /\ auth # None) =>
        \A l \in Reorderings(auth[1]) :
            authorize(Some(l), resource, required_action) = result

C21_Witness ==
    /\ op = "authorize"
    /\ auth # None
    /\ Len(auth[1]) = 2
    /\ auth[1][1].resource = resource
    /\ auth[1][2].resource = resource
    /\ auth[1][1].action # required_action
    /\ auth[1][2].action = required_action
    /\ result = Ok(<<>>)

(***************************************************************************)
(* Properties of the errors of the authorization middleware.               *)
(***************************************************************************)
\* the handler was entered with the middleware enabled
PolicyEntered ==
    /\ op \in {"authorization_call", "error_response"}
    /\ cfg[1].enabled

\* the handler got as far as the four checks of the claims
PolicyReached ==
    /\ PolicyEntered
    /\ req[1].issuer # None
    /\ req[1].token # None

\* the result of the first check that fails, in the order of the checks
FirstFailure ==
    IF ~IssuerMatches THEN InvalidClaims("Issuer does not match")
    ELSE IF ~AudienceMatches THEN InvalidClaims("Audience does not match")
    ELSE IF NotYetValid THEN InvalidClaims("Token issued for invalid time")
    ELSE IF Expired THEN InvalidClaims("Token is expired")
    ELSE Forwarded

PolicyFails == ~IssuerMatches \/ ~AudienceMatches \/ NotYetValid \/ Expired

Response == args[1]

\* the pieces of the response's message
MessagePieces == {Response.body.message[i] : i \in 1..Len(Response.body.message)}

\* C23: every policy failure reaches the caller as 403 with the code
\* INVALID_CLAIMS and its own reason in the message, never as 500; NoIssuer
\* and NoToken reach the caller as 500, never as 403.
C23_ForbiddenOrInternal ==
    /\ (PolicyReached /\ PolicyFails) => result.kind = "InvalidClaims"
    /\ (PolicyEntered /\ (req[1].issuer = None \/ req[1].token = None)) =>
          result.kind \in {"NoIssuer", "NoToken"}
    /\ op = "error_response" =>
          /\ result.kind = "InvalidClaims" =>
                /\ Response.status = 403
                /\ Response.body.code = "INVALID_CLAIMS"
                /\ result.payload = FirstFailure.payload
                /\ result.payload \in MessagePieces
          /\ result.kind \in {"NoIssuer", "NoToken"} =>
                /\ Response.status = 500
                /\ Response.body.code # "INVALID_CLAIMS"

C23_Witness ==
    /\ op = "error_response"
    /\ PolicyReached
    /\ IssuerMatches /\ AudienceMatches /\ ~NotYetValid /\ Expired
    /\ Response.status = 403
    /\ "Token is expired" \in MessagePieces

\* C26: when several checks fail the middleware reports one reason, that of
\* the first failing check in the order issuer, audience, issued-at, expiry;
\* a missing issuer is reported before a missing token.
C26_FirstFailingReason ==
    /\ PolicyReached =>
          /\ result = FirstFailure
          /\ log = (IF result.kind = "InvalidClaims" THEN <<result.payload>> ELSE <<>>)
    /\ (PolicyEntered /\ req[1].issuer = None) => result = NoIssuer
    /\ (PolicyEntered /\ req[1].issuer # None /\ req[1].token = None) => result = NoToken

C26_Witness ==
    /\ PolicyReached
    /\ ~IssuerMatches /\ ~AudienceMatches /\ NotYetValid
    /\ result = InvalidClaims("Issuer does not match")
    /\ log = <<"Issuer does not match">>

(***************************************************************************)
(* Properties of the middlewares at work.                                  *)
(***************************************************************************)
\* the outcome of handling request r with nothing else going on
Alone(r) ==
    IF r.kind = "jwt"
    THEN LET out == JWTMiddleware_call(cfg.jwt, r, clock)
         IN  [result |-> out.result, inserted |-> out.inserted]
    ELSE IF r.kind = "authorization"
    THEN [result |-> AuthorizationMiddleware_call(cfg.authorization, r, clock).result,
          inserted |-> None]
    ELSE [result |-> authorize(r.auth, r.resource, r.action), inserted |-> None]

\* a finished call has the outcome it has on its own
ResultsAsAlone ==
    \A i \in Calls :
        pc[i] = "done" =>
            /\ result[i] = Alone(req[i]).result
            /\ args[i].inserted = Alone(req[i]).inserted

\* a step of one call leaves the requests and the other calls as they are
NoInterference ==
    /\ req' = req
    /\ cfg' = cfg
    /\ \A i, j \in Calls :
          (steps'[i] # steps[i] /\ j # i) =>
              /\ args'[j] = args[j]
              /\ result'[j] = result[j]
              /\ pc'[j] = pc[j]
              /\ steps'[j] = steps[j]

\* C22: calls for different requests interleave freely: each call's result
\* is the result of that call run alone on its own inputs, and no step of a
\* call changes the token, the claims or the key set of another.
C22_CallsIndependent == []ResultsAsAlone /\ [][NoInterference]_vars

C22_Witness ==
    /\ op = "serve"
    /\ req[1].kind = "jwt" /\ req[2].kind = "jwt"
    /\ req[1].header = req[2].header
    /\ req[1].jwk_set # req[2].jwk_set
    /\ pc[1] = "insert"
    /\ pc[2] = "done"
    /\ result[2] = InvalidEncodedToken

StepsOf(i) == {steps[i][k] : k \in 1..Len(steps[i])}

JwtSteps == <<"enabled", "header", "jwk_set", "from", "decode", "insert", "service">>

\* what decode returns for the header value of request i
DecodedOf(i) ==
    EncodedToken_decode(
        EncodedContent(EncodedToken_from_str(req[i].header.value).payload.encoded),
        req[i].jwk_set[1], clock)

\* C24: the enabled JWT middleware calls the downstream service only after
\* the header was read, the key set found, the token decoded and the Token
\* inserted; on a missing or non-text header, a missing key set or an
\* invalid token the service is not called and no Token is inserted.
C24_ServiceAfterInsert ==
    \A i \in Calls :
        (op = "serve" /\ req[i].kind = "jwt" /\ cfg.jwt.enabled) =>
            /\ steps[i] = SubSeq(JwtSteps, 1, Len(steps[i]))
            /\ (pc[i] = "service" \/ "service" \in StepsOf(i)) =>
                  /\ req[i].header.present /\ req[i].header.is_text
                  /\ req[i].jwk_set # None
                  /\ DecodedOf(i).kind = "Ok"
                  /\ args[i].inserted = Some(DecodedOf(i).payload)
                  /\ SubSeq(steps[i], 1, 6) = SubSeq(JwtSteps, 1, 6)
            /\ (pc[i] = "done" /\ ~req[i].header.present) =>
                  result[i] = NoAuthorizationHeader
            /\ (pc[i] = "done" /\ req[i].header.present /\ ~req[i].header.is_text) =>
                  result[i] = InvalidAuthorizationHeader
            /\ (pc[i] = "done" /\ req[i].header.present /\ req[i].header.is_text
                  /\ req[i].jwk_set = None) => result[i] = NoJWKSet
            /\ (result[i] # None /\ result[i] # Forwarded) =>
                  /\ pc[i] = "done"
                  /\ "service" \notin StepsOf(i)
                  /\ args[i].inserted = None

C24_Witness ==
    /\ op = "serve"
    /\ req[1].kind = "jwt"
    /\ cfg.jwt.enabled
    /\ steps[1] = JwtSteps
    /\ result[1] = Forwarded
    /\ args[1].inserted # None
    /\ req[2].kind = "jwt"
    /\ result[2] = InvalidEncodedToken

\* the checks of the authorization middleware hold for request i
PolicyHolds(i) ==
    /\ req[i].issuer # None
    /\ req[i].token # None
    /\ req[i].token[1].iss = req[i].issuer[1]
    /\ \E k \in 1..Len(req[i].token[1].aud) :
          req[i].token[1].aud[k] = cfg.authorization.expected_audience
    /\ req[i].token[1].iat <= clock
    /\ clock <= req[i].token[1].exp

\* C25: a disabled middleware forwards every request without reading the
\* header, the key set, the token or the claims and without inserting a
\* Token; an enabled one, the default of new(), forwards a request only
\* after its checks passed.
C25_EnabledSwitch ==
    /\ JWTFactory_new.enabled
    /\ \A a \in Issuers : AuthorizationFactory_new(a).enabled
    /\ \A i \in Calls :
          /\ (op = "serve" /\ req[i].kind = "jwt" /\ ~cfg.jwt.enabled) =>
                /\ steps[i] = SubSeq(<<"enabled", "service">>, 1, Len(steps[i]))
                /\ args[i] = NoCallLocals
                /\ pc[i] = "done" => result[i] = Forwarded
          /\ (op = "serve" /\ req[i].kind = "authorization"
                /\ ~cfg.authorization.enabled) =>
                /\ steps[i] = SubSeq(<<"enabled", "service">>, 1, Len(steps[i]))
                /\ args[i] = NoCallLocals
                /\ pc[i] = "done" => result[i] = Forwarded
          /\ (op = "serve" /\ req[i].kind = "jwt" /\ cfg.jwt.enabled
                /\ (pc[i] = "service" \/ result[i] = Forwarded)) =>
                /\ DecodedOf(i).kind = "Ok"
                /\ args[i].inserted = Some(DecodedOf(i).payload)
          /\ (op = "serve" /\ req[i].kind = "authorization"
                /\ cfg.authorization.enabled
                /\ (pc[i] = "service" \/ result[i] = Forwarded)) => PolicyHolds(i)

C25_Witness ==
    /\ op = "serve"
    /\ ~cfg.jwt.enabled
    /\ ~cfg.authorization.enabled
    /\ req[1].kind = "jwt" /\ ~req[1].header.present /\ req[1].jwk_set = None
    /\ req[2].kind = "authorization" /\ req[2].issuer = None /\ req[2].token = None
    /\ result[1] = Forwarded
    /\ result[2] = Forwarded

====
